---- MODULE Spec2Model ----
(***************************************************************************)
(* A model of the simulated RPC fabric of package trpc: Network (the       *)
(* fabric), Server, service and Client.  Goroutines are the threads of the *)
(* model; an operation that takes the fabric lock is split at the lock     *)
(* acquisition, the reads the code performs without the lock are steps of  *)
(* their own.                                                              *)
(***************************************************************************)
EXTENDS Integers, Sequences, FiniteSets, TLC

\* ------------------------------------------------------------------ bounds
NumThreads  == 2    \* goroutines using the fabric at once
ConcServers == 1    \* Server objects created in a run of concurrent goroutines
ConcClients == 1    \* Client objects created in a run of concurrent goroutines
MaxServers  == 2    \* Server objects created in a run of one goroutine
MaxClients  == 2    \* Client objects created in a run of one goroutine

\* ------------------------------------------------------- program constants
longTimeout  == 7000
shortTimeout == 100
shortDelay   == 27

Threads == 1..NumThreads
NoThread == 0
None == "none"              \* no function value (the zero reflect.Value)
NoName == <<>>              \* the empty string
NoServer == 0               \* the nil *Server

\* ------------------------------------------------------------------ errors
NilErr              == "nil"
timeoutErr          == "rpc: request timeout"
ErrServerMissed     == "rpc: server missed"
ErrClientNotExist   == "rpc: client not exist"
ErrNotConnected     == "rpc: client doesn't connect to any server"
ErrInvalidSM        == "rpc: invalid service methods"
ErrNoServerListens  == "rpc: no server listens"
ErrNoMethod         == "rpc: Can't find method"
ErrServiceUndefined == "rpc: service undefined"
ErrServiceDefined   == "rpc: service already defined"
ErrNoExported       == "rpc.Register: type has no exported methods"

\* -------------------------------------------------------------- Go maps
Put(m, k, v) == [x \in (DOMAIN m) \cup {k} |-> IF x = k THEN v ELSE m[x]]
Delete(m, k) == [x \in (DOMAIN m) \ {k} |-> m[x]]
EmptyMap == <<>>
Has(m, k) == k \in DOMAIN m

\* --------------------------------------------------------------- strings
\* A string is a sequence of atoms; "." and "-" are the separator characters,
\* every other atom stands for a run of characters without separators.
generateName(prefix, index) == <<prefix, "-", index>>

joinAddress(network, address) == network \o <<"-">> \o address

\* strings.Split(s, "."): the pieces between the dots, Len = dots + 1.
RECURSIVE SplitFrom(_, _, _)
SplitFrom(s, i, cur) ==
    IF i > Len(s) THEN <<cur>>
    ELSE IF s[i] = "." THEN <<cur>> \o SplitFrom(s, i + 1, <<>>)
    ELSE SplitFrom(s, i + 1, Append(cur, s[i]))

Split(s) == SplitFrom(s, 1, <<>>)

parseServiceMethod(serviceMethod) ==
    LET tags == Split(serviceMethod) IN
    IF Len(tags) # 2
    THEN [service |-> <<>>, method |-> <<>>, err |-> ErrInvalidSM]
    ELSE [service |-> tags[1], method |-> tags[2], err |-> NilErr]

\* ------------------------------------------------- receivers and methods
\* A reflect.Method: Name, PkgPath ("" when exported), Type (NumIn counts the
\* receiver, In lists the kinds of the inputs) and Func, the code it runs.
Ptr == "ptr"

ZeroType == [NumIn |-> 0, NumOut |-> 0, In |-> <<>>]
ZeroMethod == [Name |-> <<>>, PkgPath |-> <<>>, Type |-> ZeroType, Func |-> None]

MethodAdd ==
    [Name |-> <<"Add">>, PkgPath |-> <<>>,
     Type |-> [NumIn |-> 3, NumOut |-> 0, In |-> <<Ptr, Ptr, Ptr>>],
     Func |-> "Add"]

\* func (*Arith) Div(args *Args, reply *int) error: one result, not accepted.
MethodDiv ==
    [Name |-> <<"Div">>, PkgPath |-> <<>>,
     Type |-> [NumIn |-> 3, NumOut |-> 1, In |-> <<Ptr, Ptr, Ptr>>],
     Func |-> "Div"]

\* A receiver value: the name of its type and the methods reflect lists for it.
RcvrArith == [TypeName |-> <<"Arith">>, Methods |-> <<MethodAdd, MethodDiv>>]
RcvrEmpty == [TypeName |-> <<"Empty">>, Methods |-> <<>>]
Receivers == {RcvrArith, RcvrEmpty}
\* A receiver whose one method RegisterName does not accept.
RcvrDivOnly == [TypeName |-> <<"DivOnly">>, Methods |-> <<MethodDiv>>]

\* The argument of the calls and the reply buffer before a call.
CallArgs == [A |-> 2, B |-> 3]
ReplyBefore == [set |-> FALSE, val |-> 0]

\* What running a method's code does to the reply buffer.
RunFunc(func, args, reply) ==
    IF func = "Add" THEN [set |-> TRUE, val |-> args.A + args.B]
    ELSE [set |-> TRUE, val |-> args.A - args.B]

validMethodType(typ) ==
    IF typ.NumIn # 3 \/ typ.NumOut # 0 THEN FALSE
    ELSE \A i \in 2..typ.NumIn : typ.In[i] = Ptr

\* The slice RegisterName fills: one slot per method of the type, the slots of
\* the methods it does not accept keep the zero reflect.Method.
SelectMethods(rcvr) ==
    [i \in 1..Len(rcvr.Methods) |->
        IF rcvr.Methods[i].PkgPath = <<>> /\ validMethodType(rcvr.Methods[i].Type)
        THEN rcvr.Methods[i] ELSE ZeroMethod]

RECURSIVE addMethodsFrom(_, _, _)
addMethodsFrom(table, methods, i) ==
    IF i > Len(methods) THEN table
    ELSE addMethodsFrom(Put(table, methods[i].Name, methods[i]), methods, i + 1)

addMethods(table, methods) == addMethodsFrom(table, methods, 1)

NoService == [name |-> <<>>, methods |-> EmptyMap]     \* the nil *service

\* RegisterName up to its call of addService: the service it built (whose name
\* field is never set) and the name it registers it under, or the error.
BuildService(name, rcvr) ==
    LET methods == SelectMethods(rcvr)
        regName == IF Len(name) = 0 THEN rcvr.TypeName ELSE name
    IN  IF Len(methods) = 0
        THEN [err |-> ErrNoExported, name |-> regName, svc |-> NoService]
        ELSE [err |-> NilErr, name |-> regName,
              svc |-> [name |-> <<>>, methods |-> addMethods(EmptyMap, methods)]]

\* addService without the test for a name already defined.
addService_Overwrites(services, name, s) ==
    [services |-> Put(services, name, s), err |-> NilErr]

addService(services, name, s) ==
    IF Has(services, name)
    THEN [services |-> services, err |-> ErrServiceDefined]
    ELSE [services |-> Put(services, name, s), err |-> NilErr]

getService(services, name) ==
    IF ~Has(services, name)
    THEN [svc |-> NoService, err |-> ErrServiceUndefined]
    ELSE [svc |-> services[name], err |-> NilErr]

getMethod(s, name) ==
    IF ~Has(s.methods, name)
    THEN [m |-> ZeroMethod, err |-> ErrNoMethod]
    ELSE [m |-> s.methods[name], err |-> NilErr]

\* service.dispatch that finds the method and returns without calling it.
serviceDispatch_SkipsCall(s, method, args, reply) ==
    LET g == getMethod(s, method) IN
    IF g.err # NilErr
    THEN [err |-> g.err, reply |-> reply, invoked |-> 0, panic |-> FALSE, route |-> "noMethod"]
    ELSE [err |-> NilErr, reply |-> reply, invoked |-> 0, panic |-> FALSE, route |-> "method"]

\* service.dispatch: the result of the call, the reply buffer after it, how
\* often the method ran, and whether m.Func.Call panicked (a zero Func).
serviceDispatch(s, method, args, reply) ==
    LET g == getMethod(s, method) IN
    IF g.err # NilErr
    THEN [err |-> g.err, reply |-> reply, invoked |-> 0, panic |-> FALSE, route |-> "noMethod"]
    ELSE IF g.m.Func = None
    THEN [err |-> NilErr, reply |-> reply, invoked |-> 0, panic |-> TRUE, route |-> "zeroMethod"]
    ELSE [err |-> NilErr, reply |-> RunFunc(g.m.Func, args, reply), invoked |-> 1,
          panic |-> FALSE, route |-> "method"]

\* The service map holds the service, and the service a method of that name
\* with code to run.
Registered(services, service, method) ==
    /\ Has(services, service)
    /\ Has(services[service].methods, method)
    /\ services[service].methods[method].Func # None

\* The method table holds the name with the zero reflect.Method.
ZeroSlot(services, service, method) ==
    /\ Has(services, service)
    /\ Has(services[service].methods, method)
    /\ services[service].methods[method].Func = None

\* Server.dispatch on a server's service map.
serverDispatch(services, service, method, args, reply) ==
    LET g == getService(services, service) IN
    IF g.err # NilErr
    THEN [err |-> NilErr, reply |-> reply, invoked |-> 0, panic |-> FALSE, route |-> "noService"]
    ELSE serviceDispatch(g.svc, method, args, reply)

\* ------------------------------------------------------------------ state
VARIABLES
    servers,        \* Network.servers: server name -> Server (an index of srvObj)
    clients,        \* Network.clients: client name -> Client
    addressMap,     \* Network.addressMap: address key -> server name
    connections,    \* Network.connections: client name -> server name
    enabled,        \* Network.enabled: client name -> bool
    reliable,       \* Network.reliable
    longDelay,      \* Network.longDelay
    longReorder,    \* Network.longReorder
    lock,           \* Network.lock: the thread holding it, or NoThread
    srvObj,         \* the Server objects created so far: [name, services]
    th,             \* per thread: the operation it runs, its position and locals
    fatal,          \* "none", or how the process died: "race" or "panic"
    dialed,         \* history: client name -> the Server object Dail resolved
    removed,        \* history: the Server objects RemoveServer has returned for
    everDisabled    \* history: the clients DisableClient has disabled

fabric == <<servers, clients, addressMap, connections, enabled, reliable,
            longDelay, longReorder>>
history == <<dialed, removed, everDisabled>>
vars == <<servers, clients, addressMap, connections, enabled, reliable,
          longDelay, longReorder, lock, srvObj, th, fatal,
          dialed, removed, everDisabled>>

\* ------------------------------------------------------------ the inputs
\* Two (network, address) pairs that joinAddress maps to one key.
AddrPairs == {<<<<"t">>, <<"a", "-", "b">>>>, <<<<"t", "-", "a">>, <<"b">>>>}
\* The empty name registers under the receiver's type name.
ServiceNames == {<<>>, <<"Arith">>}
ServiceMethods ==
    {<<"Arith", ".", "Add">>, <<"U", ".", "Add">>, <<"Arith", ".", "Sub">>,
     <<"Arith", ".">>, <<"Arith">>}
ClientNames(maxClients) == {generateName("client", i) : i \in 0..(maxClients - 1)}

NoCond == [enabled |-> FALSE, reliable |-> FALSE, longDelay |-> FALSE,
           longReorder |-> FALSE]

\* A thread between two operations; the fields are the locals of the
\* operation it ran last.
Rest ==
    [pc |-> "done", op |-> "none", flag |-> FALSE, name |-> NoName,
     sname |-> NoName, srv |-> NoServer, network |-> NoName, address |-> NoName,
     key |-> NoName, exist |-> FALSE,
     service |-> NoName, method |-> NoName, svc |-> NoService,
     reply |-> ReplyBefore, invoked |-> 0, err |-> NilErr, cond |-> NoCond,
     route |-> "none", outcome |-> "none", slept |-> 0,
     wasDisabled |-> FALSE, wasRemoved |-> FALSE, wasReenabled |-> FALSE,
     wasRegistered |-> FALSE, unknownTarget |-> FALSE]

NewNetwork ==
    /\ servers = EmptyMap
    /\ clients = EmptyMap
    /\ addressMap = EmptyMap
    /\ connections = EmptyMap
    /\ enabled = EmptyMap
    /\ reliable = TRUE
    /\ longDelay = FALSE
    /\ longReorder = FALSE
    /\ lock = NoThread

Init ==
    /\ NewNetwork
    /\ srvObj = <<>>
    /\ th = [t \in Threads |-> Rest]
    /\ fatal = "none"
    /\ dialed = EmptyMap
    /\ removed = {}
    /\ everDisabled = {}

\* A dead process takes no step.
CanStart(t) == fatal = "none" /\ th[t].pc = "done"
At(t, pc) == fatal = "none" /\ th[t].pc = pc
Lock(t) == lock = NoThread /\ lock' = t
Unlock(t) == lock = t /\ lock' = NoThread
Goto(t, r) == th' = [th EXCEPT ![t] = r]

\* ------------------------------------------------- the code, on values
\* setClientEnable: the enabled map it leaves.
setClientEnable(cl, en, name, value) ==
    IF ~Has(cl, name) THEN en ELSE Put(en, name, value)

\* registerServer without the test for an occupied address.
registerServer_Overwrites(am, name, network, address) ==
    Put(am, joinAddress(network, address), name)

\* registerServer: the addressMap it leaves.
registerServer(am, name, network, address) ==
    LET key == joinAddress(network, address) IN
    IF Has(am, key) THEN am ELSE Put(am, key, name)

getServer(sv, name) ==
    IF ~Has(sv, name) THEN [server |-> NoServer, err |-> ErrServerMissed]
    ELSE [server |-> sv[name], err |-> NilErr]

getServerByAddress(am, sv, network, address) ==
    LET key == joinAddress(network, address) IN
    IF Has(am, key) /\ Has(sv, am[key])
    THEN [server |-> sv[am[key]], err |-> NilErr]
    ELSE [server |-> NoServer, err |-> ErrNoServerListens]

\* closeClient that deletes the client it finds.
closeClient_Removes(cl, en, name) ==
    IF ~Has(cl, name)
    THEN [clients |-> cl, enabled |-> en, err |-> ErrClientNotExist]
    ELSE [clients |-> Delete(cl, name), enabled |-> Delete(en, name), err |-> NilErr]

\* closeClient: the directories it leaves and what it returns.
closeClient(cl, en, name) ==
    IF Has(cl, name)
    THEN [clients |-> cl, enabled |-> en, err |-> ErrClientNotExist]
    ELSE [clients |-> Delete(cl, name), enabled |-> Delete(en, name), err |-> NilErr]

\* networkCondition: a missing enabled entry reads as false.
networkCondition(clientName) ==
    [enabled |-> IF Has(enabled, clientName) THEN enabled[clientName] ELSE FALSE,
     reliable |-> reliable, longDelay |-> longDelay, longReorder |-> longReorder]

\* The writes of the fabric's maps a lock holder is in the middle of: a read
\* made without the lock at that moment is a data race on a Go map.
WritingServers == lock # NoThread /\ th[lock].pc \in {"NewServer", "RemoveServer"}
WritingAddressMap ==
    lock # NoThread /\ th[lock].pc = "registerServer"
        /\ ~Has(addressMap, th[lock].key)
WritingConnections == lock # NoThread /\ th[lock].pc = "createClient"

\* The runtime detects the concurrent map read and write and kills the process.
Crash(how) ==
    /\ fatal' = how
    /\ UNCHANGED <<fabric, lock, srvObj, th, history>>

\* ------------------------------------------------------------- SetReliable
SetReliable(t, value) ==
    /\ CanStart(t) /\ Lock(t)
    /\ Goto(t, [Rest EXCEPT !.pc = "SetReliable", !.op = "SetReliable", !.flag = value])
    /\ UNCHANGED <<fabric, srvObj, fatal, history>>

SetReliableBody(t) ==
    /\ At(t, "SetReliable") /\ Unlock(t)
    /\ reliable' = th[t].flag
    /\ Goto(t, [th[t] EXCEPT !.pc = "done"])
    /\ UNCHANGED <<servers, clients, addressMap, connections, enabled, longDelay,
                   longReorder, srvObj, fatal, history>>

\* ---------------------------------------------- EnableClient, DisableClient
SetClientEnable(t, name, value) ==
    /\ CanStart(t) /\ Lock(t)
    /\ Goto(t, [Rest EXCEPT !.pc = "setClientEnable",
                            !.op = IF value THEN "EnableClient" ELSE "DisableClient",
                            !.name = name, !.flag = value])
    /\ UNCHANGED <<fabric, srvObj, fatal, history>>

\* A call in flight on the client stops counting as made while the client was
\* disabled once the client is enabled again.
SetClientEnableBody(t) ==
    /\ At(t, "setClientEnable") /\ Unlock(t)
    /\ enabled' = setClientEnable(clients, enabled, th[t].name, th[t].flag)
    /\ th' = [u \in Threads |->
                IF u = t THEN [th[t] EXCEPT !.pc = "done", !.exist = Has(clients, th[t].name)]
                ELSE IF th[u].op = "Call" /\ th[u].pc # "done"
                        /\ th[u].name = th[t].name /\ th[t].flag
                THEN [th[u] EXCEPT !.wasDisabled = FALSE]
                ELSE th[u]]
    /\ everDisabled' = IF ~th[t].flag /\ Has(clients, th[t].name)
                       THEN everDisabled \cup {th[t].name} ELSE everDisabled
    /\ UNCHANGED <<servers, clients, addressMap, connections, reliable, longDelay,
                   longReorder, srvObj, fatal, dialed, removed>>

\* --------------------------------------------------------------- NewServer
NewServer(t) ==
    /\ CanStart(t) /\ Lock(t)
    /\ Goto(t, [Rest EXCEPT !.pc = "NewServer", !.op = "NewServer"])
    /\ UNCHANGED <<fabric, srvObj, fatal, history>>

NewServerBody(t) ==
    /\ At(t, "NewServer") /\ Unlock(t)
    /\ LET name == generateName("server", Cardinality(DOMAIN servers))
           server == Len(srvObj) + 1
       IN  /\ srvObj' = Append(srvObj, [name |-> name, services |-> EmptyMap])
           /\ servers' = Put(servers, name, server)
           /\ Goto(t, [th[t] EXCEPT !.pc = "done", !.srv = server, !.sname = name,
                                    !.exist = Has(servers, name)])
    /\ UNCHANGED <<clients, addressMap, connections, enabled, reliable, longDelay,
                   longReorder, fatal, history>>

\* ------------------------------------------------------------ RemoveServer
RemoveServer(t, server) ==
    /\ CanStart(t) /\ Lock(t)
    /\ server \in 1..Len(srvObj)
    /\ Goto(t, [Rest EXCEPT !.pc = "RemoveServer", !.op = "RemoveServer",
                            !.srv = server, !.sname = srvObj[server].name])
    /\ UNCHANGED <<fabric, srvObj, fatal, history>>

\* RemoveServer that also drops the connections to the server.
RemoveServerBody_DropsConnections(t) ==
    /\ At(t, "RemoveServer") /\ Unlock(t)
    /\ servers' = Delete(servers, th[t].sname)
    /\ connections' = [c \in {d \in DOMAIN connections :
                                  connections[d] # th[t].sname} |-> connections[c]]
    /\ removed' = removed \cup {th[t].srv}
    /\ Goto(t, [th[t] EXCEPT !.pc = "done"])
    /\ UNCHANGED <<clients, addressMap, enabled, reliable, longDelay,
                   longReorder, srvObj, fatal, dialed, everDisabled>>

RemoveServerBody(t) ==
    /\ At(t, "RemoveServer") /\ Unlock(t)
    /\ servers' = Delete(servers, th[t].sname)
    /\ removed' = removed \cup {th[t].srv}
    /\ Goto(t, [th[t] EXCEPT !.pc = "done"])
    /\ UNCHANGED <<clients, addressMap, connections, enabled, reliable, longDelay,
                   longReorder, srvObj, fatal, dialed, everDisabled>>

\* ------------------------------------------------ Accept -> registerServer
Accept(t, server, network, address) ==
    /\ CanStart(t) /\ Lock(t)
    /\ server \in 1..Len(srvObj)
    /\ Goto(t, [Rest EXCEPT !.pc = "registerServer", !.op = "Accept",
                            !.srv = server, !.sname = srvObj[server].name,
                            !.key = joinAddress(network, address),
                            !.network = network, !.address = address])
    /\ UNCHANGED <<fabric, srvObj, fatal, history>>

RegisterServerBody(t) ==
    /\ At(t, "registerServer") /\ Unlock(t)
    /\ addressMap' = registerServer(addressMap, th[t].sname, th[t].network, th[t].address)
    /\ Goto(t, [th[t] EXCEPT !.pc = "done", !.exist = Has(addressMap, th[t].key)])
    /\ UNCHANGED <<servers, clients, connections, enabled, reliable, longDelay,
                   longReorder, srvObj, fatal, history>>

\* -------------------------------------------------------------------- Dail
\* createClient that leaves the enabled entry out.
createClient_NotEnabled(cl, en, conn, serverName) ==
    LET name == generateName("client", Cardinality(DOMAIN cl)) IN
    [name |-> name,
     clients |-> Put(cl, name, [name |-> name]),
     enabled |-> en,
     connections |-> Put(conn, name, serverName)]

\* createClient: the name of the new client and the maps it leaves.
createClient(cl, en, conn, serverName) ==
    LET name == generateName("client", Cardinality(DOMAIN cl)) IN
    [name |-> name,
     clients |-> Put(cl, name, [name |-> name]),
     enabled |-> Put(en, name, TRUE),
     connections |-> Put(conn, name, serverName)]

\* getServerByAddress reads addressMap and servers without the lock.
Dail(t, network, address) ==
    /\ CanStart(t)
    /\ \/ LET r == getServerByAddress(addressMap, servers, network, address) IN
          /\ Goto(t, [Rest EXCEPT !.pc = IF r.err = NilErr THEN "Dail" ELSE "done",
                                  !.op = "Dail", !.network = network,
                                  !.address = address,
                                  !.key = joinAddress(network, address),
                                  !.srv = r.server, !.err = r.err])
          /\ UNCHANGED <<fabric, lock, srvObj, fatal, history>>
       \/ /\ WritingAddressMap \/ WritingServers
          /\ Crash("race")

CreateClientLock(t) ==
    /\ At(t, "Dail") /\ Lock(t)
    /\ Goto(t, [th[t] EXCEPT !.pc = "createClient"])
    /\ UNCHANGED <<fabric, srvObj, fatal, history>>

CreateClientBody(t) ==
    /\ At(t, "createClient") /\ Unlock(t)
    /\ LET r == createClient(clients, enabled, connections, srvObj[th[t].srv].name) IN
       /\ clients' = r.clients
       /\ enabled' = r.enabled
       /\ connections' = r.connections
       /\ dialed' = Put(dialed, r.name, th[t].srv)
       /\ Goto(t, [th[t] EXCEPT !.pc = "done", !.name = r.name,
                                !.exist = Has(clients, r.name)])
    /\ UNCHANGED <<servers, addressMap, reliable, longDelay, longReorder, srvObj,
                   fatal, removed, everDisabled>>

\* ------------------------------------------------------------ Client.Close
Close(t, c) ==
    /\ CanStart(t) /\ Lock(t)
    /\ c \in DOMAIN dialed
    /\ Goto(t, [Rest EXCEPT !.pc = "closeClient", !.op = "Close", !.name = c])
    /\ UNCHANGED <<fabric, srvObj, fatal, history>>

CloseClientBody(t) ==
    /\ At(t, "closeClient") /\ Unlock(t)
    /\ LET r == closeClient(clients, enabled, th[t].name) IN
       /\ clients' = r.clients
       /\ enabled' = r.enabled
       /\ Goto(t, [th[t] EXCEPT !.pc = "done", !.err = r.err,
                                !.exist = Has(clients, th[t].name)])
    /\ UNCHANGED <<servers, addressMap, connections, reliable, longDelay,
                   longReorder, srvObj, fatal, history>>

\* ------------------------------------------------------------ RegisterName
RegisterName(t, server, name, rcvr) ==
    /\ CanStart(t)
    /\ server \in 1..Len(srvObj)
    /\ LET b == BuildService(name, rcvr) IN
       Goto(t, [Rest EXCEPT !.pc = IF b.err = NilErr THEN "addService" ELSE "done",
                            !.op = "RegisterName", !.srv = server,
                            !.service = b.name, !.svc = b.svc, !.err = b.err])
    /\ UNCHANGED <<fabric, lock, srvObj, fatal, history>>

\* addService runs under the server's own lock.
AddService(t) ==
    /\ At(t, "addService")
    /\ LET r == addService(srvObj[th[t].srv].services, th[t].service, th[t].svc) IN
       /\ srvObj' = [srvObj EXCEPT ![th[t].srv].services = r.services]
       /\ Goto(t, [th[t] EXCEPT !.pc = "done", !.err = r.err,
                                !.exist = Has(srvObj[th[t].srv].services, th[t].service)])
    /\ UNCHANGED <<fabric, lock, fatal, history>>

\* ---------------------------------------------------- the fault flags
\* longDelay and longReorder have no setter: the test code assigns the fields.
SetLongFlags(t, delay, reorder) ==
    /\ CanStart(t)
    /\ <<delay, reorder>> # <<longDelay, longReorder>>
    /\ longDelay' = delay
    /\ longReorder' = reorder
    /\ UNCHANGED <<servers, clients, addressMap, connections, enabled, reliable,
                   lock, srvObj, th, fatal, history>>

\* ------------------------------------------------------------ Client.Call
\* dispatch without the test of the client's enabled flag.
dispatchEntry_IgnoresEnabled(cond, err, lost) ==
    IF err # NilErr
    THEN [pc |-> "timeoutSleep", err |-> timeoutErr, outcome |-> "DROPPED_NO_REPLY",
          slept |-> IF cond.longDelay THEN longTimeout ELSE shortTimeout]
    ELSE IF ~cond.reliable /\ lost
    THEN [pc |-> "done", err |-> timeoutErr, outcome |-> "REQUEST_LOST", slept |-> 0]
    ELSE [pc |-> "serverDispatch", err |-> NilErr, outcome |-> "none",
          slept |-> IF cond.reliable THEN 0 ELSE shortDelay]

\* dispatch up to the invocation: where the call goes next, given the server
\* lookup's error, the snapshot of the network condition and msgLost().
\* slept is the bound of the random sleep the call makes at that point.
dispatchEntry(cond, err, lost) ==
    IF ~cond.enabled \/ err # NilErr
    THEN [pc |-> "timeoutSleep", err |-> timeoutErr, outcome |-> "DROPPED_NO_REPLY",
          slept |-> IF cond.longDelay THEN longTimeout ELSE shortTimeout]
    ELSE IF ~cond.reliable /\ lost
    THEN [pc |-> "done", err |-> timeoutErr, outcome |-> "REQUEST_LOST", slept |-> 0]
    ELSE [pc |-> "serverDispatch", err |-> NilErr, outcome |-> "none",
          slept |-> IF cond.reliable THEN 0 ELSE shortDelay]

\* dispatch that returns server.dispatch's error for a lost response.
dispatchExit_LeaksError(cond, err, lost) ==
    IF ~cond.reliable /\ lost
    THEN [pc |-> "done", err |-> err, outcome |-> "RESPONSE_LOST"]
    ELSE [pc |-> IF cond.longReorder THEN "reorderSleep" ELSE "done", err |-> err,
          outcome |-> "DELIVERED"]

\* dispatch that gives up a response it is told to delay.
dispatchExit_ReorderLoses(cond, err, lost) ==
    IF (~cond.reliable /\ lost) \/ cond.longReorder
    THEN [pc |-> "done", err |-> timeoutErr, outcome |-> "RESPONSE_LOST"]
    ELSE [pc |-> "done", err |-> err, outcome |-> "DELIVERED"]

\* dispatch after server.dispatch returned err.
dispatchExit(cond, err, lost) ==
    IF ~cond.reliable /\ lost
    THEN [pc |-> "done", err |-> timeoutErr, outcome |-> "RESPONSE_LOST"]
    ELSE [pc |-> IF cond.longReorder THEN "reorderSleep" ELSE "done", err |-> err,
          outcome |-> "DELIVERED"]

\* msgLost() can only come out true where the code evaluates it.
LostChoices(cond) == IF cond.reliable THEN {FALSE} ELSE BOOLEAN

\* Network.call and the first line of dispatch: parseServiceMethod, then the
\* reads of connections and of servers, both made without the lock.
Call(t, c, serviceMethod) ==
    /\ CanStart(t)
    /\ c \in DOMAIN dialed
    /\ LET p == parseServiceMethod(serviceMethod)
           connected == Has(connections, c)
           g == IF connected THEN getServer(servers, connections[c])
                ELSE [server |-> NoServer, err |-> ErrNotConnected]
           base == [Rest EXCEPT !.op = "Call", !.name = c, !.service = p.service,
                                !.method = p.method]
       IN  \/ /\ Goto(t, IF p.err # NilErr THEN [base EXCEPT !.err = p.err]
                         ELSE IF ~connected THEN [base EXCEPT !.err = ErrNotConnected]
                         ELSE [base EXCEPT
                                 !.pc = "networkCondition",
                                 !.sname = connections[c], !.srv = g.server,
                                 !.err = g.err,
                                 !.wasDisabled = Has(enabled, c) /\ ~enabled[c],
                                 !.wasReenabled = c \in everDisabled,
                                 !.wasRemoved = dialed[c] \in removed,
                                 !.wasRegistered =
                                     /\ g.err = NilErr
                                     /\ Registered(srvObj[g.server].services,
                                                   p.service, p.method)])
              /\ UNCHANGED <<fabric, lock, srvObj, fatal, history>>
           \/ /\ p.err = NilErr
              /\ WritingConnections \/ (connected /\ WritingServers)
              /\ Crash("race")

\* dispatch that keeps the lock networkCondition took until it returns.
NetworkCondition_KeepsLock(t) ==
    /\ At(t, "networkCondition")
    /\ lock = NoThread
    /\ lock' = t
    /\ LET cond == networkCondition(th[t].name) IN
       \E lost \in LostChoices(cond) :
          LET d == dispatchEntry(cond, th[t].err, lost) IN
          Goto(t, [th[t] EXCEPT !.pc = d.pc, !.cond = cond, !.err = d.err,
                                !.outcome = d.outcome, !.slept = d.slept])
    /\ UNCHANGED <<fabric, srvObj, fatal, history>>

\* networkCondition takes the lock for the snapshot; the branches that follow
\* it in dispatch run without the lock.
NetworkCondition(t) ==
    /\ At(t, "networkCondition")
    /\ lock = NoThread
    /\ LET cond == networkCondition(th[t].name) IN
       \E lost \in LostChoices(cond) :
          LET d == dispatchEntry(cond, th[t].err, lost) IN
          Goto(t, [th[t] EXCEPT !.pc = d.pc, !.cond = cond, !.err = d.err,
                                !.outcome = d.outcome, !.slept = d.slept])
    /\ UNCHANGED <<fabric, lock, srvObj, fatal, history>>

\* The sleep of a call nobody answers, then return timeoutErr.
TimeoutSleep(t) ==
    /\ At(t, "timeoutSleep")
    /\ Goto(t, [th[t] EXCEPT !.pc = "done"])
    /\ UNCHANGED <<fabric, lock, srvObj, fatal, history>>

\* The short sleep of the unreliable fabric, server.dispatch on the Server
\* dispatch resolved, and the msgLost() of the response.
ServerDispatch(t) ==
    /\ At(t, "serverDispatch")
    /\ LET r == serverDispatch(srvObj[th[t].srv].services, th[t].service,
                               th[t].method, CallArgs, th[t].reply)
       IN  IF r.panic
           THEN /\ fatal' = "panic"
                /\ Goto(t, [th[t] EXCEPT !.pc = "panic", !.route = r.route])
           ELSE /\ fatal' = fatal
                /\ \E lost \in LostChoices(th[t].cond) :
                      LET d == dispatchExit(th[t].cond, r.err, lost) IN
                      Goto(t, [th[t] EXCEPT !.pc = d.pc, !.err = d.err,
                                            !.outcome = d.outcome,
                                            !.reply = r.reply,
                                            !.invoked = th[t].invoked + r.invoked,
                                            !.route = r.route,
                                            !.unknownTarget =
                                                ~Registered(srvObj[th[t].srv].services,
                                                            th[t].service, th[t].method)
                                                /\ ~ZeroSlot(srvObj[th[t].srv].services,
                                                             th[t].service, th[t].method)])
    /\ UNCHANGED <<fabric, lock, srvObj, history>>

\* responseDelay(): the sleep before a delivered response is returned.
ReorderSleep(t) ==
    /\ At(t, "reorderSleep")
    /\ Goto(t, [th[t] EXCEPT !.pc = "done"])
    /\ UNCHANGED <<fabric, lock, srvObj, fatal, history>>

\* ---------------------------------------------------------- specification
\* The Client objects made and in the making.
ClientsMade ==
    Cardinality(DOMAIN clients)
      + Cardinality({u \in Threads : th[u].pc \in {"Dail", "createClient"}})

\* The operations of a goroutine on a fabric whose longDelay and longReorder
\* stay as NewNetwork left them, in a run that creates at most maxServers
\* Server objects and maxClients Client objects.
Op(t, maxServers, maxClients) ==
    \/ \E v \in BOOLEAN : SetReliable(t, v)
    \/ SetReliableBody(t)
    \/ \E c \in ClientNames(maxClients), v \in BOOLEAN : SetClientEnable(t, c, v)
    \/ SetClientEnableBody(t)
    \/ Len(srvObj) < maxServers /\ NewServer(t)
    \/ NewServerBody(t)
    \/ \E s \in 1..maxServers : RemoveServer(t, s)
    \/ RemoveServerBody(t)
    \/ \E s \in 1..maxServers, a \in AddrPairs : Accept(t, s, a[1], a[2])
    \/ RegisterServerBody(t)
    \/ \E a \in AddrPairs : ClientsMade < maxClients /\ Dail(t, a[1], a[2])
    \/ CreateClientLock(t)
    \/ CreateClientBody(t)
    \/ \E c \in ClientNames(maxClients) : Close(t, c)
    \/ CloseClientBody(t)
    \/ \E s \in 1..maxServers, n \in ServiceNames, r \in Receivers :
          RegisterName(t, s, n, r)
    \/ AddService(t)
    \/ \E c \in ClientNames(maxClients), sm \in ServiceMethods : Call(t, c, sm)
    \/ NetworkCondition(t)
    \/ TimeoutSleep(t)
    \/ ServerDispatch(t)

\* Concurrent goroutines.
Next == \E t \in Threads : Op(t, ConcServers, ConcClients)

Spec == Init /\ [][Next]_vars

\* One goroutine running one operation after the other.
NextSeq == Op(1, MaxServers, MaxClients)

SpecSeq == Init /\ [][NextSeq]_vars

\* One goroutine, the test code also setting longDelay and longReorder, and a
\* second goroutine that takes the lock for SetReliable.
NextLong ==
    \/ Op(1, ConcServers, ConcClients)
    \/ \E d \in BOOLEAN, r \in BOOLEAN : SetLongFlags(1, d, r)
    \/ ReorderSleep(1)
    \/ \E v \in BOOLEAN : SetReliable(2, v)
    \/ SetReliableBody(2)

SpecLong == Init /\ [][NextLong]_vars

\* Concurrent goroutines that dial and close, on a fabric with one server.
NextDial ==
    \E t \in Threads :
        \/ Len(srvObj) < ConcServers /\ NewServer(t)
        \/ NewServerBody(t)
        \/ \E a \in AddrPairs : Accept(t, 1, a[1], a[2])
        \/ RegisterServerBody(t)
        \/ \E a \in AddrPairs : ClientsMade < MaxClients /\ Dail(t, a[1], a[2])
        \/ CreateClientLock(t)
        \/ CreateClientBody(t)
        \/ \E c \in ClientNames(MaxClients) : Close(t, c)
        \/ CloseClientBody(t)

SpecDial == Init /\ [][NextDial]_vars

\* One goroutine that also registers the receiver with no accepted method.
NextReg ==
    \/ Op(1, ConcServers, ConcClients)
    \/ \E s \in 1..ConcServers, n \in ServiceNames : RegisterName(1, s, n, RcvrDivOnly)

SpecReg == Init /\ [][NextReg]_vars

\* ------------------------------------------------------------- the claims
Returned(t, op) == th[t].pc = "done" /\ th[t].op = op

\* C1: a call made on a client while it is disabled (DisableClient returned
\* before the call started, no EnableClient since) returns the timeout error
\* and invokes no method; a call on a client that was disabled and is enabled
\* again is delivered when the fabric is reliable and the server exists: the
\* method registered for it runs once and its reply and nil come back.  The
\* calls are those that reach dispatch (their "Service.Method" parses).
C1_DisableThenEnable ==
    \A t \in Threads :
        Returned(t, "Call") =>
            /\ th[t].wasDisabled => th[t].err = timeoutErr /\ th[t].invoked = 0
            /\ ( /\ th[t].wasReenabled /\ th[t].cond.enabled /\ th[t].cond.reliable
                 /\ th[t].srv # NoServer /\ th[t].wasRegistered )
               => /\ th[t].invoked = 1
                  /\ th[t].err = NilErr
                  /\ th[t].reply = RunFunc("Add", CallArgs, ReplyBefore)

C1_Witness ==
    \E t, u \in Threads :
        /\ Returned(t, "Call") /\ th[t].wasDisabled /\ th[t].err = timeoutErr
        /\ Returned(u, "Call") /\ th[u].wasReenabled /\ th[u].cond.enabled
        /\ th[u].wasRegistered /\ th[u].invoked = 1 /\ th[u].name = th[t].name


\* C2: Close on a client that is in the fabric returns nil and removes the
\* client from clients and from enabled; Close on a client that is not (a
\* second Close) returns the client-not-found error.
C2_CloseRemovesClient ==
    \A t \in Threads :
        Returned(t, "Close") =>
            IF th[t].exist
            THEN /\ th[t].err = NilErr
                 /\ ~Has(clients, th[t].name)
                 /\ ~Has(enabled, th[t].name)
            ELSE th[t].err = ErrClientNotExist

\* C3: a call made by a client after RemoveServer returned for the server it
\* was dialed to returns the timeout error and invokes no method, whatever
\* the fabric did in between, and the process does not die in it.
C3_RemovedServerTimesOut ==
    \A t \in Threads :
        (th[t].op = "Call" /\ th[t].wasRemoved) =>
            /\ th[t].pc # "panic"
            /\ th[t].pc = "done" => th[t].err = timeoutErr /\ th[t].invoked = 0

\* C4: a call that reaches Server.dispatch with a service the server does not
\* hold, or a method the service's table does not hold, and whose response is
\* not dropped, returns a routing error and invokes no method.
C4_UnknownTargetIsRoutingError ==
    \A t \in Threads :
        (Returned(t, "Call") /\ th[t].unknownTarget /\ th[t].outcome = "DELIVERED") =>
            /\ th[t].err \in {ErrServiceUndefined, ErrNoMethod}
            /\ th[t].invoked = 0

\* C5: a call whose snapshot of the network condition is reliable and enabled
\* and whose server was found, to a service and method registered on that
\* server, runs the method once and returns what the method produced: the
\* reply it wrote and no error (an accepted method has no results), never the
\* timeout error.
C5_ReliableDelivery ==
    \A t \in Threads :
        ( /\ Returned(t, "Call") /\ th[t].cond.enabled /\ th[t].cond.reliable
          /\ th[t].srv # NoServer /\ th[t].wasRegistered )
        => /\ th[t].invoked = 1
           /\ th[t].err = NilErr
           /\ th[t].reply = RunFunc("Add", CallArgs, ReplyBefore)

C5_Witness ==
    \E t \in Threads :
        /\ Returned(t, "Call") /\ th[t].cond.enabled /\ th[t].cond.reliable
        /\ th[t].wasRegistered /\ th[t].outcome = "DELIVERED" /\ th[t].reply.set

\* C6: a key of addressMap keeps the server name it was first bound to: no
\* step removes a bound key or changes its value.
C6_FirstRegistrationWins ==
    [][\A k \in DOMAIN addressMap :
            Has(addressMap', k) /\ addressMap'[k] = addressMap[k]]_vars

\* A second server's Accept on an occupied key returned and the key still
\* names the first server.
C6_Witness ==
    \E t \in Threads :
        /\ Returned(t, "Accept") /\ th[t].exist
        /\ addressMap[th[t].key] # th[t].sname

\* C7: Dail fails with the no-server-listens error and changes nothing of the
\* fabric exactly when the key is not in addressMap or the name it maps to is
\* not in servers; otherwise createClient adds one client, not in clients
\* before, connected to the server name the key maps to and enabled, and
\* touches no other entry.
DailLookupStep(t) ==
    /\ th[t].pc = "done" /\ th'[t] # th[t] /\ th'[t].op = "Dail"
    /\ th'[t].pc \in {"done", "Dail"}

C7_DailLookup(t) ==
    LET key == th'[t].key
        found == Has(addressMap, key) /\ Has(servers, addressMap[key])
    IN  IF found
        THEN th'[t].pc = "Dail" /\ th'[t].srv = servers[addressMap[key]]
        ELSE /\ th'[t].pc = "done" /\ th'[t].err = ErrNoServerListens
             /\ UNCHANGED fabric

C7_CreateClient(t) ==
    \E c \in (DOMAIN clients') \ (DOMAIN clients) :
        /\ DOMAIN clients' = (DOMAIN clients) \cup {c}
        /\ DOMAIN connections' = (DOMAIN connections) \cup {c}
        /\ DOMAIN enabled' = (DOMAIN enabled) \cup {c}
        /\ \A d \in DOMAIN clients : clients'[d] = clients[d]
        /\ \A d \in (DOMAIN connections) \ {c} : connections'[d] = connections[d]
        /\ \A d \in (DOMAIN enabled) \ {c} : enabled'[d] = enabled[d]
        /\ connections'[c] = addressMap[th[t].key]
        /\ enabled'[c] = TRUE
        /\ th'[t].name = c
        /\ UNCHANGED <<servers, addressMap, reliable, longDelay, longReorder>>

C7_Dial ==
    [][\A t \in Threads :
          /\ DailLookupStep(t) => C7_DailLookup(t)
          /\ (th[t].pc = "createClient" /\ th'[t].pc = "done") => C7_CreateClient(t)]_vars

\* One Dail failed and one created a client, left connected and enabled.
C7_Witness ==
    \E t, u \in Threads :
        /\ Returned(t, "Dail") /\ th[t].err = ErrNoServerListens
        /\ Returned(u, "Dail") /\ th[u].err = NilErr
        /\ Has(clients, th[u].name) /\ enabled[th[u].name]
        /\ connections[th[u].name] = addressMap[th[u].key]

\* C8: the Server objects NewServer created all have different names, and
\* NewServer stores its server under a name servers did not hold.
C8_ServerNamesUnique ==
    /\ \A i, j \in 1..Len(srvObj) : i # j => srvObj[i].name # srvObj[j].name
    /\ \A t \in Threads : Returned(t, "NewServer") => ~th[t].exist

\* C9: a call that went through dispatch of the unreliable fabric leaves the
\* reply buffer as it was when it returns the timeout error, and returns it
\* written by the method when it does not.
C9_ReplyAllOrNothing ==
    \A t \in Threads :
        (Returned(t, "Call") /\ th[t].outcome # "none" /\ ~th[t].cond.reliable) =>
            IF th[t].err = timeoutErr
            THEN th[t].reply = ReplyBefore
            ELSE th[t].wasRegistered => th[t].reply = RunFunc("Add", CallArgs, ReplyBefore)

\* C10: addService under a name the server's service map holds returns an
\* error and leaves the map as it is; under a new name it binds the service;
\* of the registrations of one name on one server, concurrent ones included,
\* no two succeed.
AddServiceStep(t) == th[t].pc = "addService" /\ th'[t].pc = "done"

C10_RegisterOnce ==
    [][\A t \in Threads :
          AddServiceStep(t) =>
             LET before == srvObj[th[t].srv].services
                 after == srvObj'[th[t].srv].services
             IN  /\ IF Has(before, th[t].service)
                    THEN th'[t].err = ErrServiceDefined /\ after = before
                    ELSE th'[t].err = NilErr
                           /\ after = Put(before, th[t].service, th[t].svc)
                 /\ \A u \in Threads \ {t} :
                       ( /\ Returned(u, "RegisterName") /\ th[u].srv = th[t].srv
                         /\ th[u].service = th[t].service /\ th[u].err = NilErr )
                       => th'[t].err # NilErr]_vars

\* Two registrations of one name on one server returned: one bound the
\* service, the other failed and the map holds the name.
C10_Witness ==
    \E t, u \in Threads :
        /\ Returned(t, "RegisterName") /\ Returned(u, "RegisterName")
        /\ th[t].srv = th[u].srv /\ th[t].service = th[u].service
        /\ th[t].err = NilErr /\ th[u].err = ErrServiceDefined /\ th[u].exist
        /\ Has(srvObj[th[u].srv].services, th[u].service)

\* C11: RegisterName on a receiver with no accepted method (exported, three
\* inputs counting the receiver, the two after it pointers, no result) returns
\* an error and goes no further, so adds no service; the service it builds
\* otherwise has a method table that holds the accepted methods under their
\* names and nothing else.
Eligible(rcvr) ==
    {i \in 1..Len(rcvr.Methods) :
        rcvr.Methods[i].PkgPath = <<>> /\ validMethodType(rcvr.Methods[i].Type)}

C11_OnlyEligibleMethods ==
    [][\A t \in Threads, s \in 1..MaxServers, n \in ServiceNames,
         r \in Receivers \cup {RcvrDivOnly} :
          RegisterName(t, s, n, r) =>
             /\ Eligible(r) = {} => th'[t].err # NilErr /\ th'[t].pc = "done"
             /\ th'[t].err = NilErr =>
                   /\ DOMAIN th'[t].svc.methods =
                         {r.Methods[i].Name : i \in Eligible(r)}
                   /\ \A i \in Eligible(r) :
                         th'[t].svc.methods[r.Methods[i].Name] = r.Methods[i]]_vars

\* C12: the fabric's maps are read only by the goroutine that holds the lock:
\* the reads Dail makes of addressMap and servers and the reads a call makes
\* of connections and servers never happen while another goroutine holds the
\* lock, and the process never dies of a map read concurrent with a map write.
\* (A call whose "Service.Method" does not parse returns before it reads.)
DirectoryRead(t) ==
    /\ th[t].pc = "done" /\ th'[t] # th[t]
    /\ \/ th'[t].op = "Dail"
       \/ th'[t].op = "Call" /\ th'[t].err # ErrInvalidSM

C13_NoLockWhileSleeping ==
    \A t \in Threads :
        th[t].pc \in {"timeoutSleep", "serverDispatch", "reorderSleep"} => lock # t

\* The call is in the delay of its response while the other goroutine is
\* inside SetReliable, holding the lock.
C13_Witness ==
    /\ th[1].pc = "reorderSleep" /\ th[1].invoked = 1
    /\ lock = 2 /\ th[2].pc = "SetReliable"

\* C14: the name createClient gives a client is the name of no client created
\* before it, closed or not, and is not a key of clients, so the step adds an
\* entry and overwrites none; of two Dails, concurrent or not, the clients
\* have different names.
CreateClientStep(t) == th[t].pc = "createClient" /\ th'[t].pc = "done"

C14_ClientNamesUnique ==
    [][\A t \in Threads :
          CreateClientStep(t) =>
             /\ th'[t].name \notin DOMAIN dialed
             /\ th'[t].name \notin DOMAIN clients
             /\ \A u \in Threads \ {t} :
                   (Returned(u, "Dail") /\ th[u].err = NilErr)
                   => th'[t].name # th[u].name]_vars

\* Each of the two goroutines has returned from a Dail with a client, and the
\* fabric holds both under different names.
C14_Witness ==
    \E t, u \in Threads :
        /\ Returned(t, "Dail") /\ th[t].err = NilErr
        /\ Returned(u, "Dail") /\ th[u].err = NilErr
        /\ th[t].name # th[u].name
        /\ Has(clients, th[t].name) /\ Has(clients, th[u].name)

\* C15: the connections entry of a client is the name of the server its Dail
\* resolved, and no step removes the entry or changes its value.
C15_ConnectionFixed ==
    [][\A c \in DOMAIN connections :
          /\ connections[c] = srvObj[dialed[c]].name
          /\ Has(connections', c) /\ connections'[c] = connections[c]]_vars

\* A client keeps its entry after its server was removed, another server was
\* created and the client was closed.
C15_Witness ==
    \E t \in Threads :
        /\ Returned(t, "Close") /\ Has(connections, th[t].name)
        /\ dialed[th[t].name] \in removed
        /\ connections[th[t].name] = srvObj[dialed[th[t].name]].name
        /\ Len(srvObj) = MaxServers

\* C16: a call in dispatch goes one of the ways START -> DROPPED_NO_REPLY,
\* START -> REQUEST_LOST, START -> INVOKE -> RESPONSE_LOST and
\* START -> INVOKE -> DELIVERED.  The method runs at most once; it has not run
\* before Server.dispatch, nor in a call that ends DROPPED_NO_REPLY or
\* REQUEST_LOST; it has run in a call to a registered method that ends
\* RESPONSE_LOST; every ending but DELIVERED returns the one timeout error.
Endings == {"DROPPED_NO_REPLY", "REQUEST_LOST", "RESPONSE_LOST", "DELIVERED"}

C16_CallStateMachine ==
    \A t \in Threads :
        th[t].op = "Call" =>
            /\ th[t].invoked \in {0, 1}
            /\ th[t].pc \in {"networkCondition", "serverDispatch"} =>
                  th[t].outcome = "none" /\ th[t].invoked = 0
            /\ th[t].pc = "timeoutSleep" => th[t].outcome = "DROPPED_NO_REPLY"
            /\ th[t].pc = "reorderSleep" => th[t].outcome = "DELIVERED"
            /\ th[t].pc = "done" /\ th[t].sname # NoName => th[t].outcome \in Endings
            /\ th[t].outcome \in {"DROPPED_NO_REPLY", "REQUEST_LOST"} =>
                  th[t].invoked = 0 /\ th[t].reply = ReplyBefore
            /\ th[t].outcome = "RESPONSE_LOST" /\ th[t].wasRegistered =>
                  th[t].invoked = 1
            /\ th[t].outcome \in Endings \ {"DELIVERED"} => th[t].err = timeoutErr

\* Calls have ended each of the two ways that return the timeout error
\* without the same history: one before the method ran, one after.
C16_Witness ==
    \E t, u \in Threads :
        /\ Returned(t, "Call") /\ th[t].outcome = "RESPONSE_LOST"
        /\ th[t].invoked = 1 /\ th[t].err = timeoutErr
        /\ Returned(u, "Call") /\ th[u].outcome = "REQUEST_LOST"
        /\ th[u].invoked = 0 /\ th[u].err = timeoutErr

\* C17: the server a call dispatches to is resolved in the state in which its
\* snapshot of the network condition is taken: when networkCondition runs,
\* servers holds for the connection's server name what the call's lookup
\* found, so no RemoveServer or NewServer has come between the two.
SnapshotStep(t) == th[t].pc = "networkCondition" /\ th'[t].pc # "networkCondition"

C17_AtomicResolution ==
    [][\A t \in Threads :
          SnapshotStep(t) =>
             LET g == getServer(servers, th[t].sname) IN
             g.server = th[t].srv /\ g.err = th[t].err]_vars

\* C18: a call run from the same state with the same msgLost() results and any
\* other values of longDelay and longReorder in its snapshot takes the same
\* branch of dispatch, runs the method as often, and returns the same error
\* and reply; the flags only decide the sleeps, which change nothing of the
\* call's result.
FlagVariants(cond) ==
    {[cond EXCEPT !.longDelay = d, !.longReorder = r] : d \in BOOLEAN, r \in BOOLEAN}

\* Where the call is once the sleep it may be in has passed.
AfterSleep(pc) == IF pc \in {"timeoutSleep", "reorderSleep"} THEN "done" ELSE pc

InvokeStep(t) == th[t].pc = "serverDispatch" /\ th'[t].pc \notin {"serverDispatch", "panic"}

SleepStep(t) == th[t].pc \in {"timeoutSleep", "reorderSleep"} /\ th'[t].pc = "done"

C18_FlagsOnlyDelay ==
    [][\A t \in Threads :
          /\ SnapshotStep(t) =>
                \A c \in FlagVariants(th'[t].cond) :
                   LET e == dispatchEntry(c, th[t].err, th'[t].outcome = "REQUEST_LOST")
                   IN  /\ AfterSleep(e.pc) = AfterSleep(th'[t].pc)
                       /\ e.err = th'[t].err /\ e.outcome = th'[t].outcome
          /\ InvokeStep(t) =>
                \A c \in FlagVariants(th[t].cond) :
                   LET r == serverDispatch(srvObj[th[t].srv].services, th[t].service,
                                           th[t].method, CallArgs, th[t].reply)
                       x == dispatchExit(c, r.err, th'[t].outcome = "RESPONSE_LOST")
                   IN  /\ AfterSleep(x.pc) = AfterSleep(th'[t].pc)
                       /\ x.err = th'[t].err /\ x.outcome = th'[t].outcome
                       /\ th[t].invoked + r.invoked = th'[t].invoked
                       /\ r.reply = th'[t].reply
          /\ SleepStep(t) =>
                /\ th'[t].err = th[t].err /\ th'[t].reply = th[t].reply
                /\ th'[t].invoked = th[t].invoked /\ th'[t].outcome = th[t].outcome]_vars

\* A call whose snapshot had longReorder set has run the method, slept and
\* returned the method's reply; the fabric's longDelay is set as well.
C18_Witness ==
    \E t \in Threads :
        /\ Returned(t, "Call") /\ th[t].cond.longReorder /\ longDelay
        /\ th[t].outcome = "DELIVERED" /\ th[t].invoked = 1
        /\ th[t].err = NilErr /\ th[t].reply = RunFunc("Add", CallArgs, ReplyBefore)

\* C19: enabled and clients have the same keys in every state; createClient
\* adds its name to both, closeClient on a client the fabric holds removes
\* the name from both, and setClientEnable on a name clients does not hold
\* changes nothing of the fabric.
SameKeys == DOMAIN enabled = DOMAIN clients

CloseClientStep(t) == th[t].pc = "closeClient" /\ th'[t].pc = "done"

SetClientEnableStep(t) == th[t].pc = "setClientEnable" /\ th'[t].pc = "done"

C19_EnabledMatchesClients ==
    [][/\ SameKeys /\ SameKeys'
       /\ \A t \in Threads :
             /\ CreateClientStep(t) =>
                   Has(clients', th'[t].name) /\ Has(enabled', th'[t].name)
             /\ (CloseClientStep(t) /\ Has(clients, th[t].name)) =>
                   ~Has(clients', th[t].name) /\ ~Has(enabled', th[t].name)
             /\ (SetClientEnableStep(t) /\ ~Has(clients, th[t].name)) =>
                   UNCHANGED fabric]_vars

\* C20: no state is reached in which an operation that has started and not
\* returned is stuck for good: while a goroutine is inside an operation (a
\* call included), some goroutine can take a step, so that under fair
\* scheduling the operation goes on to its return.
InFlight(t) == th[t].pc # "done"

C20_NoStuckOperation == (\E t \in Threads : InFlight(t)) => ENABLED Next

====
